---- MODULE Spec2Model ----
(***************************************************************************)
(* Model of the hdlc crate (src/src/lib.rs): the byte-stuffing codec       *)
(* encode / decode / decode_slice and the stateful FrameReader.            *)
(*                                                                         *)
(* Bytes are small naturals.  The code only ever compares a byte with the  *)
(* four special characters, so the alphabet 0..MaxByte stands for u8.      *)
(* Sequences are 1-based here; the code's 0-based indices are kept in the  *)
(* operators that do index arithmetic (decode_slice) and shifted by one at *)
(* each access.                                                            *)
(***************************************************************************)
EXTENDS Integers, Sequences, FiniteSets, TLC

\* ------------------------------------------------------------------ bounds
\* Largest byte value of the modelled alphabet.
MaxByte == 4
\* Longest input handed to encode / decode / decode_slice.
MaxLen == 5
\* Longest input handed to them together with duplicate special characters.
MaxDupLen == 4
\* Longest source stream behind a FrameReader.
MaxStream == 7

\* --------------------------------------------------------- program constants
\* vec![0; 1024]: the most bytes one read can deliver.
BufferSize == 1024

Byte == 0..MaxByte

\* struct SpecialChars.  The code only tests bytes for equality, so every
\* SpecialChars value behaves like the one obtained by renaming its bytes in
\* order of first occurrence: fend is 0 and each later field is either an
\* earlier value or the next unused one.  These 15 values are one per
\* pattern of equalities among the four fields (one with four distinct
\* values, fourteen with a duplicate).
SpecialChars ==
    {c \in [fend : {0}, fesc : 0..1, tfend : 0..2, tfesc : 0..3] :
        /\ c.tfend <= c.fesc + 1
        /\ c.tfesc <= (IF c.tfend > c.fesc THEN c.tfend ELSE c.fesc) + 1}

\* SpecialChars::default(), transposed to the small alphabet:
\* fend, fesc, tfend, tfesc are four distinct bytes.
DefaultChars == [fend |-> 0, fesc |-> 1, tfend |-> 2, tfesc |-> 3]

\* Sequences over S of length at most n.
SeqsUpTo(S, n) == UNION {[1..k -> S] : k \in 0..n}

Min(a, b) == IF a < b THEN a ELSE b

\* --------------------------------------------------------------- results
\* Result<Vec<u8>, HDLCError>, plus "Panic" for an aborted call.
Ok(v) == [kind |-> "Ok", val |-> v]
Err(e) == [kind |-> e, val |-> <<>>]

\* The HashSet check shared by encode, decode and decode_slice:
\* true when some insert finds its value already in the set.
\* Variant: only neighbouring fields are compared.
mutHasDuplicateAdjacent(c) ==
    c.fend = c.fesc \/ c.fesc = c.tfend \/ c.tfend = c.tfesc
HasDuplicate(c) ==
    LET set1 == {c.fend}
        set2 == set1 \cup {c.fesc}
        set3 == set2 \cup {c.tfend}
    IN  \/ c.fesc \in set1
        \/ c.tfend \in set2
        \/ c.tfesc \in set3

\* ---------------------------------------------------------------- encode
\* The match arm of encode's loop: what one payload byte pushes.
\* Variants: the two substitutes exchanged; the FEND arm missing; the FESC
\* arm missing.
mutEncodeByteSwapped(value, c) ==
    IF value = c.fesc THEN <<c.fesc, c.tfend>>
    ELSE IF value = c.fend THEN <<c.fesc, c.tfesc>>
    ELSE <<value>>
mutEncodeByteFendUnescaped(value, c) ==
    IF value = c.fesc THEN <<c.fesc, c.tfesc>>
    ELSE <<value>>
mutEncodeByteFescUnescaped(value, c) ==
    IF value = c.fend THEN <<c.fesc, c.tfend>>
    ELSE <<value>>
EncodeByte(value, c) ==
    IF value = c.fesc THEN <<c.fesc, c.tfesc>>
    ELSE IF value = c.fend THEN <<c.fesc, c.tfend>>
    ELSE <<value>>

\* for value in input_iter { ... }
RECURSIVE EncodeLoop(_, _, _, _)
EncodeLoop(data, c, i, output) ==
    IF i > Len(data) THEN output
    ELSE EncodeLoop(data, c, i + 1, output \o EncodeByte(data[i], c))

\* pub fn encode
\* Variant: the final FEND is not pushed.
mutEncodeNoFinalFend(data, c) ==
    IF HasDuplicate(c) THEN Err("DuplicateSpecialChar")
    ELSE Ok(EncodeLoop(data, c, 1, <<c.fend>>))
encode(data, c) ==
    IF HasDuplicate(c) THEN Err("DuplicateSpecialChar")
    ELSE Ok(Append(EncodeLoop(data, c, 1, <<c.fend>>), c.fend))

\* ---------------------------------------------------------------- decode
\* Variants of decode's loop, one per slip:
\*   "stray"  a FEND with bytes behind it is skipped instead of reported,
\*   "escend" an FESC that is the last byte is dropped instead of reported,
\*   "final"  the output is returned also without a final FEND.
\*   "lenient" an FESC before a byte that is no substitute (and no FEND) is
\*            dropped and the byte kept.
RECURSIVE mutDecodeLoopWith(_, _, _, _, _, _)
mutDecodeLoopWith(slip, input, c, i, output, has_final_fend) ==
    IF i > Len(input)
    THEN IF has_final_fend \/ slip = "final" THEN Ok(output) ELSE Err("MissingFinalFend")
    ELSE LET value == input[i] IN
         IF value = c.fesc
         THEN IF i + 1 <= Len(input) /\ input[i + 1] = c.tfend
              THEN mutDecodeLoopWith(slip, input, c, i + 2, Append(output, c.fend),
                                     has_final_fend)
              ELSE IF i + 1 <= Len(input) /\ input[i + 1] = c.tfesc
              THEN mutDecodeLoopWith(slip, input, c, i + 2, Append(output, c.fesc),
                                     has_final_fend)
              ELSE IF slip = "lenient" /\ i + 1 <= Len(input) /\ input[i + 1] # c.fend
              THEN mutDecodeLoopWith(slip, input, c, i + 2, Append(output, input[i + 1]),
                                     has_final_fend)
              ELSE IF slip = "escend" /\ i = Len(input)
              THEN mutDecodeLoopWith(slip, input, c, i + 1, output, has_final_fend)
              ELSE Err("MissingTradeChar")
         ELSE IF value = c.fend
         THEN IF i + 1 > Len(input)
              THEN mutDecodeLoopWith(slip, input, c, i + 1, output, TRUE)
              ELSE IF slip = "stray"
              THEN mutDecodeLoopWith(slip, input, c, i + 1, output, has_final_fend)
              ELSE Err("FendCharInData")
         ELSE mutDecodeLoopWith(slip, input, c, i + 1, Append(output, value),
                                has_final_fend)
mutDecodeLoopSkipsStray(input, c, i, output, has_final_fend) ==
    mutDecodeLoopWith("stray", input, c, i, output, has_final_fend)
mutDecodeLoopDropsLastEsc(input, c, i, output, has_final_fend) ==
    mutDecodeLoopWith("escend", input, c, i, output, has_final_fend)
mutDecodeLoopNoFinalCheck(input, c, i, output, has_final_fend) ==
    mutDecodeLoopWith("final", input, c, i, output, has_final_fend)
mutDecodeLoopLenientEsc(input, c, i, output, has_final_fend) ==
    mutDecodeLoopWith("lenient", input, c, i, output, has_final_fend)

\* while let Some(value) = input_iter.next() { ... }; i is the 1-based
\* position of the byte the next call of next() yields.
RECURSIVE DecodeLoop(_, _, _, _, _)
DecodeLoop(input, c, i, output, has_final_fend) ==
    IF i > Len(input)
    THEN IF has_final_fend THEN Ok(output) ELSE Err("MissingFinalFend")
    ELSE LET value == input[i] IN
         IF value = c.fesc
         THEN IF i + 1 <= Len(input) /\ input[i + 1] = c.tfend
              THEN DecodeLoop(input, c, i + 2, Append(output, c.fend), has_final_fend)
              ELSE IF i + 1 <= Len(input) /\ input[i + 1] = c.tfesc
              THEN DecodeLoop(input, c, i + 2, Append(output, c.fesc), has_final_fend)
              ELSE Err("MissingTradeChar")
         ELSE IF value = c.fend
         THEN IF i + 1 > Len(input)
              THEN DecodeLoop(input, c, i + 1, output, TRUE)
              ELSE Err("FendCharInData")
         ELSE DecodeLoop(input, c, i + 1, Append(output, value), has_final_fend)

\* pub fn decode
\* Variant: the first byte is consumed without being compared with FEND.
mutDecodeFirstUnchecked(input, c) ==
    IF HasDuplicate(c) THEN Err("DuplicateSpecialChar")
    ELSE DecodeLoop(input, c, 2, <<>>, FALSE)
decode(input, c) ==
    IF HasDuplicate(c) THEN Err("DuplicateSpecialChar")
    ELSE IF Len(input) = 0 \/ input[1] # c.fend THEN Err("MissingFirstFend")
    ELSE DecodeLoop(input, c, 2, <<>>, FALSE)

\* ----------------------------------------------------------- decode_slice
\* Result<&[u8], HDLCError> together with the caller's buffer as the call
\* leaves it.  kind "Panic": the call aborts (usize underflow in
\* `index - swap - 1`, or an index outside the slice).
SliceResult(k, v, b) == [kind |-> k, val |-> v, buf |-> b]

\* input[w] = v for the 0-based index w = index - swap - 1.
InBounds(w, input) == w >= 0 /\ w < Len(input)
Store(input, w, v) == [input EXCEPT ![w + 1] = v]

\* Variant: plain bytes are written at index - 1, without the swap count.
RECURSIVE mutSliceLoopNoSwap(_, _, _, _, _, _, _)
mutSliceLoopNoSwap(output, c, index, input, sync, swap, last_was_fesc) ==
    IF index >= Len(output)
    THEN SliceResult("MissingFinalFend", <<>>, input)
    ELSE LET byte == output[index + 1] IN
         IF last_was_fesc > 0
         THEN IF byte \in {c.tfesc, c.tfend}
              THEN LET w == index - (swap + 1) - 1 IN
                   IF ~InBounds(w, input) THEN SliceResult("Panic", <<>>, input)
                   ELSE mutSliceLoopNoSwap(output, c, index + 1,
                            Store(input, w, IF byte = c.tfesc THEN c.fesc ELSE c.fend),
                            sync, swap + 1, 0)
              ELSE SliceResult("MissingTradeChar", <<>>, input)
         ELSE IF byte = c.fend
              THEN IF sync > 0
                   THEN IF index + 1 < Len(output)
                        THEN SliceResult("FendCharInData", <<>>, input)
                        ELSE LET end == index - swap - 1 IN
                             IF end < 0 \/ end > Len(input)
                             THEN SliceResult("Panic", <<>>, input)
                             ELSE SliceResult("Ok", SubSeq(input, 1, end), input)
                   ELSE mutSliceLoopNoSwap(output, c, index + 1, input, 1, swap, 0)
              ELSE IF byte = c.fesc
              THEN mutSliceLoopNoSwap(output, c, index + 1, input, sync, swap, 1)
              ELSE IF sync > 0
              THEN LET w == index - 1 IN
                   IF ~InBounds(w, input) THEN SliceResult("Panic", <<>>, input)
                   ELSE mutSliceLoopNoSwap(output, c, index + 1, Store(input, w, byte),
                                           sync, swap, 0)
              ELSE mutSliceLoopNoSwap(output, c, index + 1, input, sync, swap, 0)

\* for (index, byte) in output.iter().enumerate() { ... }
\* output is the snapshot that is scanned, input the buffer that is written;
\* index is the code's 0-based index.
RECURSIVE SliceLoop(_, _, _, _, _, _, _)
SliceLoop(output, c, index, input, sync, swap, last_was_fesc) ==
    IF index >= Len(output)
    THEN SliceResult("MissingFinalFend", <<>>, input)
    ELSE LET byte == output[index + 1] IN
         IF last_was_fesc > 0
         THEN IF byte = c.tfesc
              THEN LET w == index - (swap + 1) - 1 IN
                   IF ~InBounds(w, input) THEN SliceResult("Panic", <<>>, input)
                   ELSE SliceLoop(output, c, index + 1, Store(input, w, c.fesc),
                                  sync, swap + 1, 0)
              ELSE IF byte = c.tfend
              THEN LET w == index - (swap + 1) - 1 IN
                   IF ~InBounds(w, input) THEN SliceResult("Panic", <<>>, input)
                   ELSE SliceLoop(output, c, index + 1, Store(input, w, c.fend),
                                  sync, swap + 1, 0)
              ELSE SliceResult("MissingTradeChar", <<>>, input)
         ELSE IF byte = c.fend
              THEN IF sync > 0
                   THEN IF index + 1 < Len(output)
                        THEN SliceResult("FendCharInData", <<>>, input)
                        ELSE LET end == index - swap - 1 IN
                             IF end < 0 \/ end > Len(input)
                             THEN SliceResult("Panic", <<>>, input)
                             ELSE SliceResult("Ok", SubSeq(input, 1, end), input)
                   ELSE SliceLoop(output, c, index + 1, input, 1, swap, 0)
              ELSE IF byte = c.fesc
              THEN SliceLoop(output, c, index + 1, input, sync, swap, 1)
              ELSE IF sync > 0
              THEN LET w == index - swap - 1 IN
                   IF ~InBounds(w, input) THEN SliceResult("Panic", <<>>, input)
                   ELSE SliceLoop(output, c, index + 1, Store(input, w, byte),
                                  sync, swap, 0)
              ELSE SliceLoop(output, c, index + 1, input, sync, swap, 0)

\* pub fn decode_slice
decode_slice(input, c) ==
    IF HasDuplicate(c) THEN SliceResult("DuplicateSpecialChar", <<>>, input)
    ELSE SliceLoop(input, c, 0, input, 0, 0, 0)

\* ------------------------------------------------------------ FrameReader
\* frame.drain(..frame.len().saturating_sub(1)): all but the last element go.
\* Variants: nothing is drained; everything is drained.
mutDrainNothing(frame) == frame
mutDrainAll(frame) == <<>>
Drain(frame) == SubSeq(frame, Len(frame), Len(frame))

\* Variant of the scan loop: a FEND met while seeking starts the frame also
\* when the next byte is a FEND.
RECURSIVE mutScanLoopNoSkip(_, _, _, _, _, _)
mutScanLoopNoSkip(data, fend, bytes_checked, in_frame, frame, frameAt) ==
    IF bytes_checked >= Len(data)
    THEN [full_frame |-> FALSE, frame |-> frame, frameAt |-> frameAt,
          bytes_checked |-> bytes_checked]
    ELSE LET checked == bytes_checked + 1
             byte == data[checked]
             pushed == Append(frame, byte)
             pushedAt == Append(frameAt, checked)
         IN  IF byte = fend
             THEN IF in_frame
                  THEN [full_frame |-> TRUE, frame |-> pushed, frameAt |-> pushedAt,
                        bytes_checked |-> checked]
                  ELSE mutScanLoopNoSkip(data, fend, checked, TRUE,
                                         Drain(pushed), Drain(pushedAt))
             ELSE mutScanLoopNoSkip(data, fend, checked, in_frame, pushed, pushedAt)

\* Variant of the scan loop: a frame that is started when the data ends is
\* handed out as if it were complete.
RECURSIVE mutScanLoopFlushesOpen(_, _, _, _, _, _)
mutScanLoopFlushesOpen(data, fend, bytes_checked, in_frame, frame, frameAt) ==
    IF bytes_checked >= Len(data)
    THEN [full_frame |-> in_frame, frame |-> frame, frameAt |-> frameAt,
          bytes_checked |-> bytes_checked]
    ELSE LET checked == bytes_checked + 1
             byte == data[checked]
             pushed == Append(frame, byte)
             pushedAt == Append(frameAt, checked)
         IN  IF byte = fend
             THEN IF in_frame
                  THEN [full_frame |-> TRUE, frame |-> pushed, frameAt |-> pushedAt,
                        bytes_checked |-> checked]
                  ELSE IF Len(pushed) + 1 <= Len(data) /\ data[Len(pushed) + 1] = fend
                  THEN mutScanLoopFlushesOpen(data, fend, checked, FALSE, pushed, pushedAt)
                  ELSE mutScanLoopFlushesOpen(data, fend, checked, TRUE,
                                              Drain(pushed), Drain(pushedAt))
             ELSE mutScanLoopFlushesOpen(data, fend, checked, in_frame, pushed, pushedAt)

\* The scan loop of read_frame, `for byte in data.iter() { ... }`, from the
\* state it has after bytes_checked bytes.  frame is the Vec the code builds;
\* frameAt is bookkeeping only: the index in data of each byte of frame,
\* pushed and drained exactly as frame is.
RECURSIVE ScanLoop(_, _, _, _, _, _)
ScanLoop(data, fend, bytes_checked, in_frame, frame, frameAt) ==
    IF bytes_checked >= Len(data)
    THEN [full_frame |-> FALSE, frame |-> frame, frameAt |-> frameAt,
          bytes_checked |-> bytes_checked]
    ELSE LET checked == bytes_checked + 1
             byte == data[checked]
             pushed == Append(frame, byte)
             pushedAt == Append(frameAt, checked)
         IN  IF byte = fend
             THEN IF in_frame
                  THEN [full_frame |-> TRUE, frame |-> pushed, frameAt |-> pushedAt,
                        bytes_checked |-> checked]
                  ELSE IF Len(pushed) + 1 <= Len(data) /\ data[Len(pushed) + 1] = fend
                  THEN ScanLoop(data, fend, checked, FALSE, pushed, pushedAt)
                  ELSE ScanLoop(data, fend, checked, TRUE, Drain(pushed), Drain(pushedAt))
             ELSE ScanLoop(data, fend, checked, in_frame, pushed, pushedAt)

\* What is saved in self.rest once the scan is over: rest.clear() has run
\* only when the scan found a closing FEND, and the unscanned tail of data is
\* appended in either case.
\* Variants: the bytes after the closing FEND are not kept; without a
\* closing FEND all of data is appended to rest, which is a prefix of it;
\* the closing FEND is kept in rest as well.
mutSaveRestAppendsData(rest, data, scan) ==
    IF scan.full_frame
    THEN SubSeq(data, scan.bytes_checked + 1, Len(data))
    ELSE rest \o data
mutSaveRestKeepsClosing(rest, data, scan) ==
    IF scan.full_frame
    THEN SubSeq(data, scan.bytes_checked, Len(data))
    ELSE rest
mutSaveRestDropsTail(rest, data, scan) ==
    IF scan.full_frame THEN <<>> ELSE rest
SaveRest(rest, data, scan) ==
    (IF scan.full_frame THEN <<>> ELSE rest)
        \o SubSeq(data, scan.bytes_checked + 1, Len(data))

\* Variant of read_frame: a completed frame is returned only when its
\* escape sequences are valid, and is dropped otherwise.
mutReadFrameValidates(rest, new, fend, restAt, newAt) ==
    IF Len(new) = 0 /\ Len(rest) = 0
    THEN [some |-> FALSE, frame |-> <<>>, rest |-> rest,
          frameAt |-> <<>>, restAt |-> restAt]
    ELSE LET data == rest \o new
             dataAt == restAt \o newAt
             scan == ScanLoop(data, fend, 0, FALSE, <<>>, <<>>)
             valid == scan.full_frame /\ decode(scan.frame, DefaultChars).kind = "Ok"
         IN  [some |-> valid,
              frame |-> IF valid THEN scan.frame ELSE <<>>,
              rest |-> SaveRest(rest, data, scan),
              frameAt |-> IF valid
                          THEN [k \in 1..Len(scan.frameAt) |-> dataAt[scan.frameAt[k]]]
                          ELSE <<>>,
              restAt |-> SaveRest(restAt, dataAt, scan)]

\* FrameReader::read_frame on pending bytes rest when the read delivers the
\* bytes new (none when the read returns 0 or fails).  restAt / newAt are
\* bookkeeping: the stream position of each byte of rest / new.
read_frame(rest, new, fend, restAt, newAt) ==
    IF Len(new) = 0 /\ Len(rest) = 0
    THEN [some |-> FALSE, frame |-> <<>>, rest |-> rest,
          frameAt |-> <<>>, restAt |-> restAt]
    ELSE LET data == rest \o new
             dataAt == restAt \o newAt
             scan == ScanLoop(data, fend, 0, FALSE, <<>>, <<>>)
         IN  [some |-> scan.full_frame,
              frame |-> IF scan.full_frame THEN scan.frame ELSE <<>>,
              rest |-> SaveRest(rest, data, scan),
              frameAt |-> IF scan.full_frame
                          THEN [k \in 1..Len(scan.frameAt) |-> dataAt[scan.frameAt[k]]]
                          ELSE <<>>,
              restAt |-> SaveRest(restAt, dataAt, scan)]

\* ------------------------------------------------------------------ state
VARIABLES
    \* the codec calls
    s_chars,     \* the SpecialChars argument
    input,       \* the data / input argument
    op,          \* "none" before the call, then the function that ran
    result,      \* what the call returned (and the buffer, for decode_slice)
    \* one FrameReader over one source
    s_char,      \* FrameReader.s_char
    stream,      \* every byte the source will ever deliver
    pos,         \* how many of them the source has delivered
    rest,        \* FrameReader.rest
    ret,         \* what the last read_frame call returned
    frames,      \* history: the frames returned so far, in order
    called,      \* history: read_frame has been called
    none_seen,   \* history: some call returned None
    read_zero,   \* history: the last call's bytes_read was 0
    single_read, \* history: the first call's read delivered the whole stream
    restAt,      \* bookkeeping: stream position of each byte of rest
    framesAt     \* bookkeeping: stream positions of each returned frame

codecVars == <<s_chars, input, op, result>>
readerVars == <<s_char, stream, pos, rest, ret, frames, called, none_seen,
                read_zero, single_read, restAt, framesAt>>
vars == <<codecVars, readerVars>>

\* The bytes a source stream is made of: the reader's FEND and two bytes
\* that are not FEND (its FESC and TFEND).  read_frame compares a byte with
\* s_char.fend and with nothing else.
StreamByte == {DefaultChars.fend, DefaultChars.fesc, DefaultChars.tfend}
NoResult == SliceResult("none", <<>>, <<>>)
NoReturn == [some |-> FALSE, frame |-> <<>>]

\* No codec call in this behaviour.
CodecIdle ==
    /\ s_chars = DefaultChars
    /\ input = <<>>
    /\ op = "none"
    /\ result = NoResult

\* FrameReader::new over an arbitrary source: rest: Vec::new().
ReaderNew(src) ==
    /\ s_char = DefaultChars
    /\ stream = src
    /\ pos = 0
    /\ rest = <<>>
    /\ ret = NoReturn
    /\ frames = <<>>
    /\ called = FALSE
    /\ none_seen = FALSE
    /\ read_zero = FALSE
    /\ single_read = FALSE
    /\ restAt = <<>>
    /\ framesAt = <<>>

\* ----------------------------------------------------- the codec, applied
InitCodec ==
    /\ s_chars \in SpecialChars
    /\ input \in SeqsUpTo(Byte, IF s_chars = DefaultChars THEN MaxLen ELSE MaxDupLen)
    /\ op = "none"
    /\ result = NoResult
    /\ ReaderNew(<<>>)

Encode ==
    /\ op = "none"
    /\ op' = "encode"
    /\ result' = LET r == encode(input, s_chars) IN SliceResult(r.kind, r.val, input)
    /\ UNCHANGED <<s_chars, input, readerVars>>

Decode ==
    /\ op = "none"
    /\ op' = "decode"
    /\ result' = LET r == decode(input, s_chars) IN SliceResult(r.kind, r.val, input)
    /\ UNCHANGED <<s_chars, input, readerVars>>

DecodeSlice ==
    /\ op = "none"
    /\ op' = "decode_slice"
    /\ result' = decode_slice(input, s_chars)
    /\ UNCHANGED <<s_chars, input, readerVars>>

NextCodec == Encode \/ Decode \/ DecodeSlice

SpecCodec == InitCodec /\ [][NextCodec]_vars

\* ---------------------------------------------------- the reader, stepped
Init ==
    /\ CodecIdle
    /\ \E src \in SeqsUpTo(StreamByte, MaxStream) : ReaderNew(src)

\* One read_frame call whose read delivers the next n bytes of the stream.
Call(n) ==
    LET new == SubSeq(stream, pos + 1, pos + n)
        newAt == [k \in 1..n |-> pos + k]
        r == read_frame(rest, new, s_char.fend, restAt, newAt)
    IN  /\ pos' = pos + n
        /\ rest' = r.rest
        /\ restAt' = r.restAt
        /\ ret' = [some |-> r.some, frame |-> r.frame]
        /\ frames' = IF r.some THEN Append(frames, r.frame) ELSE frames
        /\ framesAt' = IF r.some THEN Append(framesAt, r.frameAt) ELSE framesAt
        /\ called' = TRUE
        /\ none_seen' = (none_seen \/ ~r.some)
        /\ read_zero' = (n = 0)
        /\ single_read' = IF called THEN single_read ELSE n = Len(stream)
        /\ UNCHANGED <<s_char, stream, codecVars>>

\* reader.read(&mut buffer) returns Ok(n), n > 0: some or all of the bytes
\* the source still has, at most the buffer's size.
ReadFrame ==
    \E n \in 1..Min(BufferSize, Len(stream) - pos) : Call(n)

\* reader.read returns Ok(0): the source is exhausted.
ReadFrameAtEof ==
    /\ pos = Len(stream)
    /\ Call(0)

\* reader.read returns Err: .ok().unwrap_or_default() makes it 0 bytes.
ReadFrameIoError ==
    /\ pos < Len(stream)
    /\ Call(0)

Next == ReadFrame \/ ReadFrameAtEof \/ ReadFrameIoError

Spec == Init /\ [][Next]_vars

\* ================================================================ claims
\* The four special characters are pairwise distinct.
Distinct(c) == Cardinality({c.fend, c.fesc, c.tfend, c.tfesc}) = 4

\* The bytes of a sequence, as a set.
Range(q) == {q[k] : k \in 1..Len(q)}

\* ---- codec claims, checked under SpecCodec

\* C1  Round trip: with four distinct special characters, decoding what
\* encode returned for a payload gives Ok(payload), for every payload.
C1_RoundTrip ==
    (op = "encode" /\ Distinct(s_chars)) =>
        /\ result.kind = "Ok"
        /\ decode(result.val, s_chars) = Ok(input)

\* A payload of three or more bytes, all of them special characters with
\* FEND and FESC among them, has been encoded and decodes back to itself.
C1_Witness ==
    /\ op = "encode" /\ Distinct(s_chars)
    /\ Len(input) >= 3
    /\ Range(input) \subseteq {s_chars.fend, s_chars.fesc, s_chars.tfend, s_chars.tfesc}
    /\ {s_chars.fend, s_chars.fesc} \subseteq Range(input)
    /\ decode(result.val, s_chars) = Ok(input)

\* The spec's `escaped`: ESC -> ESC TFESC, FEND -> ESC TFEND, others kept.
RECURSIVE Escaped(_, _)
Escaped(payload, c) ==
    IF payload = <<>> THEN <<>>
    ELSE (CASE Head(payload) = c.fesc -> <<c.fesc, c.tfesc>>
            [] Head(payload) = c.fend -> <<c.fesc, c.tfend>>
            [] OTHER -> <<Head(payload)>>)
         \o Escaped(Tail(payload), c)

\* C5  Wire format: with four distinct special characters encode returns
\* Ok(fend ++ escaped(payload) ++ fend); bytes equal to tfend or tfesc pass
\* through unchanged.
C5_WireFormat ==
    (op = "encode" /\ Distinct(s_chars)) =>
        result = SliceResult("Ok",
                             <<s_chars.fend>> \o Escaped(input, s_chars) \o <<s_chars.fend>>,
                             input)

\* A payload holding FEND, FESC, TFEND and an ordinary byte has been encoded
\* into FEND, two escape pairs, two unchanged bytes, FEND.
C5_Witness ==
    /\ op = "encode" /\ Distinct(s_chars)
    /\ Len(input) = 4
    /\ {s_chars.fend, s_chars.fesc, s_chars.tfend} \subseteq Range(input)
    /\ \E k \in 1..4 : input[k] \notin {s_chars.fend, s_chars.fesc, s_chars.tfend, s_chars.tfesc}
    /\ result.kind = "Ok" /\ Len(result.val) = 8

\* Number of payload bytes equal to FEND or FESC.
NumStuffed(payload, c) == Cardinality({k \in 1..Len(payload) : payload[k] \in {c.fend, c.fesc}})

\* C6  Output bounds: the encoded length is len + 2 + (number of payload
\* bytes equal to fend or fesc), hence within [len+2, 2*len+2], and the
\* output starts and ends with fend.
C6_OutputBounds ==
    (op = "encode" /\ Distinct(s_chars)) =>
        /\ result.kind = "Ok"
        /\ Len(result.val) = Len(input) + 2 + NumStuffed(input, s_chars)
        /\ Len(result.val) >= Len(input) + 2
        /\ Len(result.val) <= 2 * Len(input) + 2
        /\ result.val[1] = s_chars.fend
        /\ result.val[Len(result.val)] = s_chars.fend

\* A non-empty payload made only of FEND and FESC bytes was encoded and the
\* output has the maximal length 2*len + 2.
C6_Witness ==
    /\ op = "encode" /\ Distinct(s_chars)
    /\ Len(input) >= 2
    /\ Range(input) = {s_chars.fend, s_chars.fesc}
    /\ Len(result.val) = 2 * Len(input) + 2

\* C7  Duplicate special characters: when two of the four values are equal,
\* encode, decode and decode_slice all return DuplicateSpecialChar whatever
\* the input, and decode_slice's buffer is as the caller passed it.
C7_DuplicateRejected ==
    (op # "none" /\ ~Distinct(s_chars)) =>
        /\ result.kind = "DuplicateSpecialChar"
        /\ result.val = <<>>
        /\ result.buf = input

\* decode_slice was called on a buffer that would otherwise be rewritten (a
\* frame with an escape pair), with tfend = tfesc the only duplicate.
C7_Witness ==
    /\ op = "decode_slice"
    /\ s_chars.tfend = s_chars.tfesc
    /\ Cardinality({s_chars.fend, s_chars.fesc, s_chars.tfend}) = 3
    /\ Len(input) >= 4
    /\ input[1] = s_chars.fend /\ input[2] = s_chars.fesc /\ input[3] = s_chars.tfend
    /\ input[Len(input)] = s_chars.fend
    /\ result.kind = "DuplicateSpecialChar"
    /\ result.buf = input

\* C4  Equivalence of the decoders: with four distinct special characters,
\* whenever decode and decode_slice both return Ok on the same bytes, the
\* two returned byte sequences are equal.
C4_DecodersAgree ==
    (op = "decode_slice" /\ Distinct(s_chars)
        /\ result.kind = "Ok" /\ decode(input, s_chars).kind = "Ok") =>
        result.val = decode(input, s_chars).val

\* Both decoders accepted a frame in which an escape pair is followed by a
\* plain byte, so that decode_slice wrote at a shifted index.
C4_Witness ==
    /\ op = "decode_slice" /\ Distinct(s_chars)
    /\ result.kind = "Ok" /\ decode(input, s_chars).kind = "Ok"
    /\ Len(input) >= 5
    /\ input[2] = s_chars.fesc
    /\ input[4] \notin {s_chars.fend, s_chars.fesc}
    /\ Len(result.val) >= 2

\* C11  Garbage prefix: on a buffer g ++ f, g non-empty and free of fend and
\* fesc, f a well-formed encoded frame, decode_slice returns Ok with exactly
\* the payload of f; no byte of g is in the returned view.
C11_GarbagePrefixDiscarded ==
    \A k \in 1..(Len(input) - 1) :
        LET g == SubSeq(input, 1, k)
            f == SubSeq(input, k + 1, Len(input))
        IN  (/\ op = "decode_slice" /\ Distinct(s_chars)
             /\ Range(g) \cap {s_chars.fend, s_chars.fesc} = {}
             /\ decode(f, s_chars).kind = "Ok") =>
                /\ result.kind = "Ok"
                /\ result.val = decode(f, s_chars).val

\* What a left-to-right scan of q behind its first byte meets first:
\*   "stray"  an unescaped fend that is not the last byte,
\*   "final"  an unescaped fend that is the last byte,
\*   "badesc" an fesc that is the last byte or is followed by a byte that is
\*            neither tfend nor tfesc,
\*   "none"   the end of q, every fesc before it having its substitute.
\* i is the position the scan has reached.
RECURSIVE FirstEvent(_, _, _)
FirstEvent(q, c, i) ==
    IF i > Len(q) THEN "none"
    ELSE IF q[i] = c.fend THEN (IF i = Len(q) THEN "final" ELSE "stray")
    ELSE IF q[i] = c.fesc
         THEN IF i < Len(q) /\ q[i + 1] \in {c.tfend, c.tfesc}
              THEN FirstEvent(q, c, i + 2)
              ELSE "badesc"
    ELSE FirstEvent(q, c, i + 1)

\* The input starts with fend and the scan behind it meets e first.
Meets(e) ==
    /\ Distinct(s_chars)
    /\ Len(input) >= 1 /\ input[1] = s_chars.fend
    /\ FirstEvent(input, s_chars, 2) = e

\* C12  Stray delimiter: when the input starts with fend and, all earlier
\* escape pairs being valid, an unescaped fend occurs before the last byte,
\* decode and decode_slice both return FendCharInData.
C12_StrayDelimiter ==
    (op \in {"decode", "decode_slice"} /\ Meets("stray")) =>
        result.kind = "FendCharInData"

\* decode_slice met a stray fend behind a valid escape pair.
C12_Witness ==
    /\ op = "decode_slice" /\ Meets("stray")
    /\ Len(input) >= 5
    /\ input[2] = s_chars.fesc /\ input[3] = s_chars.tfend
    /\ input[4] = s_chars.fend
    /\ result.kind = "FendCharInData"

\* C13  decode, bad or missing substitute: when the input starts with fend
\* and the first offending position is an fesc that is the last byte or is
\* followed by neither tfend nor tfesc, decode returns MissingTradeChar.
C13_DecodeMissingTradeChar ==
    (op = "decode" /\ Meets("badesc")) => result.kind = "MissingTradeChar"

\* decode met, behind a valid escape pair, an fesc that ends the input.
C13_Witness ==
    /\ op = "decode" /\ Meets("badesc")
    /\ Len(input) >= 4
    /\ input[2] = s_chars.fesc /\ input[3] = s_chars.tfesc
    /\ input[Len(input)] = s_chars.fesc
    /\ input[Len(input) - 1] \notin {s_chars.fesc, s_chars.fend}
    /\ result.kind = "MissingTradeChar"

\* C14  decode_slice, bad or missing substitute: on the inputs of C13, the
\* buffer ending right after the fesc included, decode_slice returns
\* MissingTradeChar, the kind decode returns.
C14_SliceMissingTradeChar ==
    (op = "decode_slice" /\ Meets("badesc")) =>
        /\ result.kind = "MissingTradeChar"
        /\ result.kind = decode(input, s_chars).kind

\* C15  Leading delimiter: with four distinct special characters, decode
\* returns MissingFirstFend on the empty input and on every input whose
\* first byte is not fend.
C15_MissingFirstFend ==
    (op = "decode" /\ Distinct(s_chars)
        /\ (Len(input) = 0 \/ input[1] # s_chars.fend)) =>
        result.kind = "MissingFirstFend"

\* decode refused an input that is a well-formed frame behind one byte that
\* is not fend.
C15_Witness ==
    /\ op = "decode" /\ Distinct(s_chars)
    /\ Len(input) >= 4
    /\ input[1] # s_chars.fend
    /\ decode(Tail(input), s_chars).kind = "Ok"
    /\ result.kind = "MissingFirstFend"

\* C16  Missing final delimiter: when the input starts with fend, holds no
\* other unescaped fend and every fesc has its substitute (the one-byte
\* input fend included), decode and decode_slice return MissingFinalFend.
C16_MissingFinalFend ==
    (op \in {"decode", "decode_slice"} /\ Meets("none")) =>
        result.kind = "MissingFinalFend"

\* decode_slice ran to the end of a started frame that holds an escape pair
\* and a plain byte but no closing fend.
C16_Witness ==
    /\ op = "decode_slice" /\ Meets("none")
    /\ Len(input) >= 4
    /\ \E k \in 2..(Len(input) - 1) : input[k] = s_chars.fesc
    /\ input[Len(input)] \notin {s_chars.tfend, s_chars.tfesc}
    /\ result.kind = "MissingFinalFend"

\* ---- reader claims, checked under Spec

\* The reader's delimiter.
Fend == s_char.fend

\* A delimiter-inclusive frame with a non-empty body free of FEND.
IsFrame(f) ==
    /\ Len(f) >= 3
    /\ f[1] = Fend /\ f[Len(f)] = Fend
    /\ \A k \in 2..(Len(f) - 1) : f[k] # Fend

\* The source is exhausted and the caller has seen it: the last call read
\* zero bytes at end of stream and returned None.
Exhausted ==
    /\ called
    /\ pos = Len(stream)
    /\ read_zero
    /\ ~ret.some

\* The frames a fresh reader yields when its first read delivers all of
\* src and every later read delivers nothing, up to the first None.
RECURSIVE PullAll(_, _, _)
PullAll(pending, new, fend) ==
    LET r == read_frame(pending, new, fend, pending, new)
    IN  IF r.some THEN <<r.frame>> \o PullAll(r.rest, <<>>, fend) ELSE <<>>

\* C2  Reassembly invariance: once the source is exhausted and a call has
\* returned None, the frames returned are those a single read of the whole
\* stream yields, however the stream was split into reads.
C2_ReassemblyInvariance ==
    Exhausted => frames = PullAll(<<>>, stream, Fend)

\* C3  Pending preservation: a call that reads n > 0 bytes and returns None
\* leaves rest = old rest ++ the bytes just read.
C3_PendingPreserved ==
    [][(pos' > pos /\ ~ret'.some) =>
          rest' = rest \o SubSeq(stream, pos + 1, pos')]_vars

\* The stream is  FEND x FEND y FEND  with x and y non-empty and free of
\* FEND; m is the position of the middle delimiter.
SharedAt(m) ==
    /\ m \in 3..(Len(stream) - 2)
    /\ IsFrame(SubSeq(stream, 1, m))
    /\ IsFrame(SubSeq(stream, m, Len(stream)))

\* C8  Shared delimiter: on the stream FEND x FEND y FEND the reader yields
\* two frames, FEND x FEND and then FEND y FEND.
C8_SharedDelimiter ==
    \A m \in 1..Len(stream) :
        (Exhausted /\ SharedAt(m)) =>
            frames = <<SubSeq(stream, 1, m), SubSeq(stream, m, Len(stream))>>

\* q is a concatenation of zero or more frames, each with its own opening
\* and closing delimiter.
RECURSIVE IsFrameTrain(_)
IsFrameTrain(q) ==
    \/ q = <<>>
    \/ \E e \in 3..Len(q) :
          /\ IsFrame(SubSeq(q, 1, e))
          /\ IsFrameTrain(SubSeq(q, e + 1, Len(q)))

\* The frames of a frame train, in order.
RECURSIVE TrainFrames(_)
TrainFrames(q) ==
    IF q = <<>> THEN <<>>
    ELSE LET e == CHOOSE e \in 3..Len(q) : IsFrame(SubSeq(q, 1, e))
         IN  <<SubSeq(q, 1, e)>> \o TrainFrames(SubSeq(q, e + 1, Len(q)))

IsPrefix(p, q) == Len(p) <= Len(q) /\ p = SubSeq(q, 1, Len(p))

\* C9  Back-to-back frames in one read: when the stream is f1 ++ ... ++ fn
\* and the first call's read delivers all of it, the calls return f1..fn in
\* order with no None in between, and nothing but None after fn.
C9_BackToBack ==
    (called /\ single_read /\ stream # <<>> /\ IsFrameTrain(stream)) =>
        /\ IsPrefix(frames, TrainFrames(stream))
        /\ none_seen => (frames = TrainFrames(stream) /\ ~ret.some)
        /\ ~none_seen => ret.some

\* Two back-to-back frames came in one read, both were returned and the
\* call after them returned None.
C9_Witness ==
    /\ called /\ single_read /\ IsFrameTrain(stream)
    /\ Len(frames) = 2
    /\ frames = TrainFrames(stream)
    /\ none_seen /\ ~ret.some

\* Position of the first FEND of the stream after position p, or one past
\* the end of the stream when there is none.
NextFend(p) ==
    IF \E k \in (p + 1)..Len(stream) : stream[k] = Fend
    THEN CHOOSE k \in (p + 1)..Len(stream) :
            stream[k] = Fend /\ \A j \in (p + 1)..(k - 1) : stream[j] # Fend
    ELSE Len(stream) + 1

\* Stream positions of discarded bytes: those before the first FEND of the
\* stream, and those after the closing delimiter of a returned frame and
\* before the next FEND.
Garbage ==
    {p \in 1..Len(stream) : p < NextFend(0)}
    \cup UNION {{p \in 1..Len(stream) :
                    LET close == framesAt[k][Len(framesAt[k])]
                    IN  close < p /\ p < NextFend(close)} : k \in 1..Len(frames)}

\* C10  Leading garbage is discarded: every byte of every returned frame is
\* a byte of the stream, and none of them is a byte that precedes the
\* stream's first FEND or a non-delimiter byte between a returned frame's
\* closing delimiter and the next delimiter.
C10_GarbageDiscarded ==
    \A k \in 1..Len(frames) :
        /\ Len(framesAt[k]) = Len(frames[k])
        /\ \A i \in 1..Len(frames[k]) :
              /\ framesAt[k][i] \in 1..Len(stream)
              /\ stream[framesAt[k][i]] = frames[k][i]
              /\ framesAt[k][i] \notin Garbage

\* A frame was returned from a stream that begins with a non-delimiter
\* byte, and another non-delimiter byte follows the frame's closing FEND.
C10_Witness ==
    /\ Len(stream) >= 5
    /\ stream[1] # Fend
    /\ Len(frames) >= 1
    /\ framesAt[1][1] > 1
    /\ LET close == framesAt[1][Len(framesAt[1])]
       IN  close < Len(stream) /\ stream[close + 1] # Fend

\* C17  End of sequence is permanent: a call whose read yields 0 bytes while
\* rest is empty returns None; and once the source is exhausted and a call
\* has returned None, every later call returns None and leaves rest (and
\* the list of returned frames) as it was.
C17_EndIsPermanent ==
    [][/\ (rest = <<>> /\ pos' = pos) => ~ret'.some
       /\ (called /\ pos = Len(stream) /\ ~ret.some) =>
             (~ret'.some /\ rest' = rest /\ frames' = frames)]_vars

\* The source is exhausted, a frame was returned earlier, and a call at end
\* of stream has returned None while bytes of a further, unfinished frame
\* are still pending; every call from here on is that same call again.
C17_Witness ==
    /\ Exhausted
    /\ Len(frames) >= 1
    /\ rest # <<>>
    /\ \E k \in 1..Len(rest) : rest[k] = Fend

\* The data a call scans, old rest ++ the bytes its read delivers, and the
\* stream position of each of its bytes; for use in action formulas, where
\* pos' - pos is the number of bytes read.
ScannedData == rest \o SubSeq(stream, pos + 1, pos')
ScannedAt == restAt \o [k \in 1..(pos' - pos) |-> pos + k]

\* Index in q of the last FEND of q's first run of FENDs (0 without FEND).
RunEnd(q) ==
    LET ends == {j \in 1..Len(q) : q[j] = Fend /\ (j = Len(q) \/ q[j + 1] # Fend)}
    IN  IF ends = {} THEN 0
        ELSE CHOOSE j \in ends : \A i \in ends : j <= i

\* All stream positions that went into a returned frame.
FramePositions(at) == UNION {Range(at[k]) : k \in 1..Len(at)}

\* C18  Delimiter runs: when a call that is seeking a frame start scans two
\* or more consecutive FENDs and returns a frame, the frame begins at the
\* last FEND of the run: it starts with one FEND followed by the non-FEND
\* byte behind the run, and no byte scanned before that FEND (the earlier
\* delimiters of the run among them) is in any returned frame.
C18_DelimiterRun ==
    [][LET j == RunEnd(ScannedData)
           f == ret'.frame
           fAt == framesAt'[Len(framesAt')]
       IN  (/\ Len(frames') > Len(frames)
            /\ j >= 2 /\ ScannedData[j - 1] = Fend) =>
              /\ Len(f) >= 3
              /\ f[1] = Fend /\ f[2] # Fend
              /\ fAt[1] = ScannedAt[j]
              /\ f[2] = ScannedData[j + 1]
              /\ \A i \in 1..(j - 1) :
                    ScannedAt[i] \notin FramePositions(framesAt')]_vars

\* The first read delivered a stream in which two FENDs precede the first
\* non-FEND byte of a frame, and the frame returned begins at the second.
C18_Witness ==
    /\ single_read /\ Len(frames) >= 1
    /\ LET at == framesAt[1][1]
       IN  /\ at >= 2
           /\ stream[at - 1] = Fend
           /\ stream[at + 1] # Fend
    /\ frames[1][2] # Fend

\* C19  The reader performs no escape validation: when the first read
\* delivers a stream that is one frame, fend body fend with a non-empty
\* body free of fend, read_frame returns exactly that sequence, still
\* escaped, also when the body holds an fesc without its substitute; the
\* MissingTradeChar error appears when the returned frame goes to decode.
C19_NoEscapeValidation ==
    (single_read /\ IsFrame(stream)) =>
        /\ frames = <<stream>>
        /\ FirstEvent(stream, s_char, 2) = "badesc" =>
              decode(frames[1], s_char).kind = "MissingTradeChar"

\* The reader returned, unchanged, a frame whose body has a valid escape
\* pair and then an fesc followed by the closing delimiter.
C19_Witness ==
    /\ single_read /\ IsFrame(stream)
    /\ Len(stream) >= 5
    /\ stream[2] = s_char.fesc /\ stream[3] = s_char.tfend
    /\ FirstEvent(stream, s_char, 2) = "badesc"
    /\ frames = <<stream>>
    /\ ret.some /\ ret.frame = stream

\* Index in q of the delimiter that closes q's first frame: the first FEND
\* behind the last FEND of q's first run (0 when there is none).
CloseIdx(q) ==
    LET j == RunEnd(q)
        closes == {e \in (j + 1)..Len(q) : q[e] = Fend}
    IN  IF j = 0 \/ closes = {} THEN 0
        ELSE CHOOSE e \in closes : \A i \in closes : e <= i

\* C20  Pending buffer after a completed frame: a call that returns
\* Some(frame) leaves in rest exactly the bytes of old rest ++ newly read
\* bytes that follow the frame's closing delimiter, in order; a call that
\* returns None does not clear or replace rest, whose old content stays at
\* its front.
C20_PendingAfterFrame ==
    [][LET e == CloseIdx(ScannedData)
       IN  /\ Len(frames') > Len(frames) =>
                /\ e > 0
                /\ ret'.frame[Len(ret'.frame)] = ScannedData[e]
                /\ rest' = SubSeq(ScannedData, e + 1, Len(ScannedData))
                /\ restAt' = SubSeq(ScannedAt, e + 1, Len(ScannedAt))
           /\ Len(frames') = Len(frames) => IsPrefix(rest, rest')]_vars

\* One read delivered garbage, a frame and two or more bytes behind it; the
\* call returned the frame and rest holds exactly the bytes behind it.
C20_Witness ==
    /\ single_read /\ ret.some /\ Len(frames) = 1
    /\ framesAt[1][1] >= 2
    /\ Len(rest) >= 2
    /\ rest = SubSeq(stream, framesAt[1][Len(framesAt[1])] + 1, Len(stream))

\* C21  Frames are contiguous in the source: under every chunking and every
\* sequence of calls, each returned frame is a run of consecutive stream
\* positions, equal to the stream's bytes there, and each frame starts
\* behind the closing delimiter of the frame before it.
C21_FramesContiguous ==
    \A k \in 1..Len(frames) :
        LET at == framesAt[k]
        IN  /\ Len(at) = Len(frames[k])
            /\ \A i \in 1..(Len(at) - 1) : at[i + 1] = at[i] + 1
            /\ frames[k] = SubSeq(stream, at[1], at[Len(at)])
            /\ k > 1 => at[1] > framesAt[k - 1][Len(framesAt[k - 1])]

\* The variants of HDLCError.
HDLCErrorKinds ==
    {"DuplicateSpecialChar", "FendCharInData", "MissingTradeChar",
     "MissingFirstFend", "MissingFinalFend"}

\* C22  decode_slice index safety: for every buffer and every valid
\* SpecialChars, decode_slice finishes with Ok or an HDLCError: no write
\* index `index - swap - 1` and no end index falls below zero or outside
\* the buffer.
C22_SliceIndexSafety ==
    (op = "decode_slice" /\ Distinct(s_chars)) =>
        result.kind \in {"Ok"} \cup HDLCErrorKinds

\* C23  Reverse round trip: with four distinct special characters, every
\* input that decode accepts is what encode returns for the decoded
\* payload: encode(decode(x)) = x.
C23_ReverseRoundTrip ==
    (op = "decode" /\ Distinct(s_chars) /\ result.kind = "Ok") =>
        encode(result.val, s_chars) = Ok(input)

\* decode accepted an input with an escape pair and another payload byte,
\* and encoding the payload it returned gives the input back.
C23_Witness ==
    /\ op = "decode" /\ Distinct(s_chars) /\ result.kind = "Ok"
    /\ Len(input) >= 5
    /\ \E i \in 2..(Len(input) - 2) :
          input[i] = s_chars.fesc /\ input[i + 1] = s_chars.tfend
    /\ Len(result.val) >= 2 /\ s_chars.fend \in Range(result.val)
    /\ encode(result.val, s_chars) = Ok(input)

\* C24  Shape of returned frames: in every reachable state, every frame
\* read_frame has returned is at least 3 bytes long, starts and ends with
\* fend and has no fend in between; neither an empty frame (fend fend) nor
\* a frame without closing delimiter is returned, also at the end of a
\* source that stops inside a started frame.
C24_FrameShape ==
    /\ \A k \in 1..Len(frames) : IsFrame(frames[k])
    /\ ret.some => IsFrame(ret.frame)
    /\ ~ret.some => ret.frame = <<>>

\* The source held a run of two delimiters and stopped inside a started
\* frame; it is exhausted, and a well-formed frame was returned before.
C24_Witness ==
    /\ Exhausted
    /\ Len(frames) >= 1
    /\ Len(stream) >= 2
    /\ stream[Len(stream)] # Fend /\ stream[Len(stream) - 1] = Fend
    /\ LET last == framesAt[Len(framesAt)]
       IN  last[Len(last)] < Len(stream) - 1
    /\ \E i \in 1..(Len(stream) - 2) : stream[i] = Fend /\ stream[i + 1] = Fend
    /\ \A k \in 1..Len(frames) : IsFrame(frames[k])

\* The payload bytes whose encoding the source can deliver, the non-empty
\* payloads over them, and every sequence of such payloads together with
\* its wire image encode(p1) ++ ... ++ encode(pn), as far as the image
\* fits into a stream.
PayloadByte ==
    {b \in Byte : Range(encode(<<b>>, DefaultChars).val) \subseteq StreamByte}
Payloads == SeqsUpTo(PayloadByte, MaxStream - 2) \ {<<>>}

RECURSIVE EncodeAll(_)
EncodeAll(ps) ==
    IF ps = <<>> THEN <<>>
    ELSE encode(Head(ps), DefaultChars).val \o EncodeAll(Tail(ps))

EncodedTrains ==
    {t \in {[ps |-> ps, wire |-> EncodeAll(ps)] :
                ps \in SeqsUpTo(Payloads, MaxStream \div 3) \ {<<>>}} :
        Len(t.wire) <= MaxStream}

\* C25  End-to-end framing: when the stream is encode(p1) ++ ... ++
\* encode(pn) for non-empty payloads and the first read delivers all of it,
\* the calls return encode(p1), .., encode(pn) in this order with no None
\* in between and only None behind, and decode of the i-th returned frame
\* is Ok(pi).
C25_EndToEnd ==
    \A t \in EncodedTrains :
        (called /\ single_read /\ stream = t.wire) =>
            /\ Len(frames) <= Len(t.ps)
            /\ \A i \in 1..Len(frames) :
                  /\ frames[i] = encode(t.ps[i], s_char).val
                  /\ decode(frames[i], s_char) = Ok(t.ps[i])
            /\ none_seen => (Len(frames) = Len(t.ps) /\ ~ret.some)
            /\ ~none_seen => ret.some

\* Two payloads, one of them a FEND that encode had to escape, went through
\* encode, one read, read_frame and decode, and None came behind them.
C25_Witness ==
    \E t \in EncodedTrains :
        /\ called /\ single_read /\ stream = t.wire
        /\ Len(t.ps) = 2 /\ Len(frames) = 2
        /\ \E i \in 1..2 : s_char.fend \in Range(t.ps[i])
        /\ \A i \in 1..2 : decode(frames[i], s_char) = Ok(t.ps[i])
        /\ none_seen /\ ~ret.some

\* C26  Encoded frames are unambiguous: for every payload and four distinct
\* special characters, the output of encode has fend at its first and last
\* position and nowhere else, and every fesc in it is directly followed by
\* tfend or tfesc.
C26_Unambiguous ==
    (op = "encode" /\ Distinct(s_chars)) =>
        /\ result.kind = "Ok"
        /\ LET out == result.val
           IN  /\ Len(out) >= 2
               /\ \A k \in 1..Len(out) :
                     (out[k] = s_chars.fend) <=> (k = 1 \/ k = Len(out))
               /\ \A k \in 1..Len(out) :
                     out[k] = s_chars.fesc =>
                        /\ k < Len(out)
                        /\ out[k + 1] \in {s_chars.tfend, s_chars.tfesc}

\* A payload holding all four special characters, FESC last, was encoded.
C26_Witness ==
    /\ op = "encode" /\ Distinct(s_chars) /\ result.kind = "Ok"
    /\ Range(input) = {s_chars.fend, s_chars.fesc, s_chars.tfend, s_chars.tfesc}
    /\ input[Len(input)] = s_chars.fesc
    /\ Len(result.val) = Len(input) + 4

====
